---- MODULE Spec2Model ----
(***************************************************************************)
(* PyChrono code gate (allowlist_enforcer.py): rewrite_and_validate as a   *)
(* state machine.  Source text is a sequence of tokens; ast.parse and      *)
(* ast.unparse are the conversions between token text and syntax trees.    *)
(* Dotted names ("pychrono.core.Widget") are sequences of identifiers.     *)
(* The HTTP front (server.py) is a second specification, ServerSpec: one   *)
(* action per route, each the whole handler.                               *)
(***************************************************************************)
EXTENDS Integers, Sequences, FiniteSets, TLC

VARIABLES
    source,      \* the submitted text (tokens)
    allow,       \* Allowlist loaded from allowlist_path
    cls_ren,     \* legacy class renames   (old -> new)
    attr_ren,    \* legacy attribute renames (old -> new)
    pc,          \* position inside rewrite_and_validate
    tree,        \* ast.parse(source), rewritten in place by LegacyRewriter
    tree2,       \* ast.parse(rewritten), the tree that is validated
    applied,     \* rewriter.applied
    rewritten,   \* the text that is validated and returned
    alias_map,   \* _collect_aliases(tree2)
    stack,       \* nodes the validator still has to visit, next one first
    errors,      \* validator.errors
    result,      \* the returned triple, or the raised exception
    SECRET,      \* server.py: AUTH_KEY or API_KEY of the environment, or ""
    req,         \* server.py: the request a route handler was called with
    resp         \* server.py: the handler's response

vars == <<source, allow, cls_ren, attr_ren, pc, tree, tree2, applied, rewritten,
          alias_map, stack, errors, result, SECRET, req, resp>>

-----------------------------------------------------------------------------
(* Bounds of the checked instance *)

\* most positional arguments of a generated call
MaxArgs == 4
\* most parameters of a generated overload
MaxParams == 3
\* most "core" links put in front of a generated attribute chain
MaxChain == 2
\* expression nesting the parser's AST construction accepts (CPython's
\* recursion limit, scaled down)
RecursionLimit == 8
\* expression nesting ast.unparse writes out before it raises RecursionError:
\* its visitor spends more interpreter frames per level than the parser does
UnparseLimit == 6

-----------------------------------------------------------------------------
(* Syntax trees (the ast node classes the enforcer looks at) *)

\* alias.asname is None / keyword.arg is None
None == "<None>"

Name(id) == [k |-> "Name", id |-> id]
Attribute(value, attr) == [k |-> "Attribute", value |-> value, attr |-> attr]
Call(func, args, keywords) ==
    [k |-> "Call", func |-> func, args |-> args, keywords |-> keywords]
Subscript(value, slice) == [k |-> "Subscript", value |-> value, slice |-> slice]
Constant == [k |-> "Constant"]
keyword(arg, value) == [k |-> "keyword", arg |-> arg, value |-> value]
\* alias.name is a dotted name; after "from m import" it has one part
alias(name, asname) == [k |-> "alias", name |-> name, asname |-> asname]
Import(names) == [k |-> "Import", names |-> names]
ImportFrom(module, names) == [k |-> "ImportFrom", module |-> module, names |-> names]
Assign(target, value) == [k |-> "Assign", targets |-> <<target>>, value |-> value]
Expr(value) == [k |-> "Expr", value |-> value]
Module(body) == [k |-> "Module", body |-> body]

-----------------------------------------------------------------------------
(* Text: tokens, ast.unparse and ast.parse *)

Keywords == {"import", "from", "as", "class"}
\* blank space between two tokens, where the source has any
SP == " "
Punctuation == {".", ",", "(", ")", "[", "]", "=", "**", "NL", SP}
IsIdent(t) == t \notin Keywords \cup Punctuation \cup {"1", None}

\* identifiers whose text holds a dot: written out, they lex as several tokens
DottedText == ("core.Widget" :> <<"core", ".", "Widget">>)
IdentText(id) == IF id \in DOMAIN DottedText THEN DottedText[id] ELSE <<id>>

RECURSIVE JoinWith(_, _)
JoinWith(parts, sep) ==
    IF parts = <<>> THEN <<>>
    ELSE IF Len(parts) = 1 THEN parts[1]
    ELSE parts[1] \o <<sep>> \o JoinWith(Tail(parts), sep)

RECURSIVE UnparseExpr(_)
UnparseExpr(e) ==
    CASE e.k = "Name" -> IdentText(e.id)
      [] e.k = "Constant" -> <<"1">>
      [] e.k = "Attribute" -> UnparseExpr(e.value) \o <<".">> \o IdentText(e.attr)
      [] e.k = "Subscript" ->
            UnparseExpr(e.value) \o <<"[">> \o UnparseExpr(e.slice) \o <<"]">>
      [] e.k = "keyword" ->
            IF e.arg = None THEN <<"**">> \o UnparseExpr(e.value)
            ELSE <<e.arg, "=">> \o UnparseExpr(e.value)
      [] e.k = "Call" ->
            UnparseExpr(e.func) \o <<"(">>
            \o JoinWith([i \in 1..(Len(e.args) + Len(e.keywords)) |->
                            IF i <= Len(e.args) THEN UnparseExpr(e.args[i])
                            ELSE UnparseExpr(e.keywords[i - Len(e.args)])], ",")
            \o <<")">>

UnparseAlias(a) ==
    JoinWith([i \in 1..Len(a.name) |-> <<a.name[i]>>], ".")
    \o (IF a.asname = None THEN <<>> ELSE <<"as", a.asname>>)

UnparseStmt(s) ==
    CASE s.k = "Import" ->
            <<"import">> \o JoinWith([i \in 1..Len(s.names) |-> UnparseAlias(s.names[i])], ",")
      [] s.k = "ImportFrom" ->
            <<"from">> \o JoinWith([i \in 1..Len(s.module) |-> <<s.module[i]>>], ".")
            \o <<"import">>
            \o JoinWith([i \in 1..Len(s.names) |-> UnparseAlias(s.names[i])], ",")
      [] s.k = "Assign" -> UnparseExpr(s.targets[1]) \o <<"=">> \o UnparseExpr(s.value)
      [] s.k = "Expr" -> UnparseExpr(s.value)

\* ast.unparse(tree): one statement per line
Unparse(t) == JoinWith([i \in 1..Len(t.body) |-> UnparseStmt(t.body[i])], "NL")

Fail == [ok |-> FALSE]
Parsed(node, next) == [ok |-> TRUE, node |-> node, next |-> next]

RECURSIVE ParseExpr(_, _)
RECURSIVE ParseTrailers(_, _, _)
RECURSIVE ParseArgs(_, _, _, _)

\* an expression starting at toks[i]: [ok, node, next]
ParseExpr(toks, i) ==
    IF i > Len(toks) THEN Fail
    ELSE IF IsIdent(toks[i]) THEN ParseTrailers(toks, i + 1, Name(toks[i]))
    ELSE IF toks[i] = "1" THEN Parsed(Constant, i + 1)
    ELSE Fail

\* the call whose arguments r were read
CallTrailer(toks, node, r) ==
    IF r.ok THEN ParseTrailers(toks, r.next, Call(node, r.args, r.keywords)) ELSE Fail

\* the subscript whose index r was read
SubscriptTrailer(toks, node, r) ==
    IF r.ok /\ r.next <= Len(toks) /\ toks[r.next] = "]"
    THEN ParseTrailers(toks, r.next + 1, Subscript(node, r.node))
    ELSE Fail

\* .attr, (args) and [index] after a primary
ParseTrailers(toks, i, node) ==
    IF i > Len(toks) THEN Parsed(node, i)
    ELSE IF toks[i] = "." THEN
        IF i + 1 <= Len(toks) /\ IsIdent(toks[i + 1])
        THEN ParseTrailers(toks, i + 2, Attribute(node, toks[i + 1]))
        ELSE Fail
    ELSE IF toks[i] = "(" THEN
        IF i + 1 <= Len(toks) /\ toks[i + 1] = ")"
        THEN ParseTrailers(toks, i + 2, Call(node, <<>>, <<>>))
        ELSE CallTrailer(toks, node, ParseArgs(toks, i + 1, <<>>, <<>>))
    ELSE IF toks[i] = "[" THEN SubscriptTrailer(toks, node, ParseExpr(toks, i + 1))
    ELSE Parsed(node, i)

\* how the argument at toks[i] starts: name=value, **mapping or a positional value
ArgKind(toks, i) ==
    IF i + 1 <= Len(toks) /\ IsIdent(toks[i]) /\ toks[i + 1] = "=" THEN "keyword"
    ELSE IF i <= Len(toks) /\ toks[i] = "**" THEN "**"
    ELSE "positional"

\* after one argument: the closing bracket, or a comma and the next argument
ArgsNext(toks, j, args, kws) ==
    IF toks[j] = ")" THEN [ok |-> TRUE, args |-> args, keywords |-> kws, next |-> j + 1]
    ELSE IF toks[j] = "," THEN ParseArgs(toks, j + 1, args, kws)
    ELSE Fail

\* the argument of kind kind at toks[i], its value read as r
ArgRead(toks, i, args, kws, kind, r) ==
    IF ~r.ok \/ r.next > Len(toks) THEN Fail
    \* "positional argument follows keyword argument"
    ELSE IF kind = "positional" /\ kws # <<>> THEN Fail
    ELSE ArgsNext(toks, r.next,
                  IF kind = "positional" THEN Append(args, r.node) ELSE args,
                  IF kind = "keyword" THEN Append(kws, keyword(toks[i], r.node))
                  ELSE IF kind = "**" THEN Append(kws, keyword(None, r.node))
                  ELSE kws)

ArgOfKind(toks, i, args, kws, kind) ==
    ArgRead(toks, i, args, kws, kind,
            ParseExpr(toks, IF kind = "keyword" THEN i + 2
                            ELSE IF kind = "**" THEN i + 1 ELSE i))

\* the arguments of a call, toks[i] starting one of them: [ok, args, keywords, next]
ParseArgs(toks, i, args, kws) == ArgOfKind(toks, i, args, kws, ArgKind(toks, i))

\* a dotted module name starting at toks[i]: [ok, name, next]
RECURSIVE ParseDotted(_, _, _)
ParseDotted(toks, i, acc) ==
    IF i > Len(toks) \/ ~IsIdent(toks[i]) THEN Fail
    ELSE IF i + 1 <= Len(toks) /\ toks[i + 1] = "."
         THEN ParseDotted(toks, i + 2, Append(acc, toks[i]))
         ELSE [ok |-> TRUE, name |-> Append(acc, toks[i]), next |-> i + 1]

RECURSIVE ParseAliases(_, _, _, _)

\* the alias a read, toks[j] following it
AliasNext(toks, j, dotted, acc, a) ==
    IF j > Len(toks) THEN [ok |-> TRUE, names |-> Append(acc, a)]
    ELSE IF toks[j] = "," THEN ParseAliases(toks, j + 1, dotted, Append(acc, a))
    ELSE Fail

\* the alias whose name d was read: "as name" may follow
AliasRead(toks, dotted, acc, d) ==
    IF ~d.ok \/ (~dotted /\ Len(d.name) # 1) THEN Fail
    ELSE IF d.next + 1 <= Len(toks) /\ toks[d.next] = "as" /\ IsIdent(toks[d.next + 1])
         THEN AliasNext(toks, d.next + 2, dotted, acc, alias(d.name, toks[d.next + 1]))
         ELSE AliasNext(toks, d.next, dotted, acc, alias(d.name, None))

\* the aliases of an import statement (dotted: "import a.b", else "from m import a")
ParseAliases(toks, i, dotted, acc) == AliasRead(toks, dotted, acc, ParseDotted(toks, i, <<>>))

\* position of the first "=" outside brackets, 0 when there is none
RECURSIVE FindAssign(_, _, _)
FindAssign(toks, i, depth) ==
    IF i > Len(toks) THEN 0
    ELSE IF toks[i] = "=" /\ depth = 0 THEN i
    ELSE FindAssign(toks, i + 1,
                    IF toks[i] \in {"(", "["} THEN depth + 1
                    ELSE IF toks[i] \in {")", "]"} THEN depth - 1 ELSE depth)

ImportStmt(r) == IF r.ok THEN [ok |-> TRUE, node |-> Import(r.names)] ELSE Fail

ImportFromNames(m, r) ==
    IF r.ok THEN [ok |-> TRUE, node |-> ImportFrom(m.name, r.names)] ELSE Fail

ImportFromStmt(toks, m) ==
    IF m.ok /\ m.next <= Len(toks) /\ toks[m.next] = "import"
    THEN ImportFromNames(m, ParseAliases(toks, m.next + 1, FALSE, <<>>))
    ELSE Fail

ExprStmt(toks, r) ==
    IF r.ok /\ r.next = Len(toks) + 1 THEN [ok |-> TRUE, node |-> Expr(r.node)] ELSE Fail

\* target = value, both sides read whole
AssignStmt(t, tlen, v, vlen) ==
    IF t.ok /\ t.next = tlen + 1 /\ t.node.k \in {"Name", "Attribute", "Subscript"}
       /\ v.ok /\ v.next = vlen + 1
    THEN [ok |-> TRUE, node |-> Assign(t.node, v.node)] ELSE Fail

ExprOrAssign(toks, eq) ==
    IF eq = 0 THEN ExprStmt(toks, ParseExpr(toks, 1))
    ELSE AssignStmt(ParseExpr(SubSeq(toks, 1, eq - 1), 1), eq - 1,
                    ParseExpr(SubSeq(toks, eq + 1, Len(toks)), 1), Len(toks) - eq)

\* one logical line: [ok, node]
ParseStmt(toks) ==
    IF toks[1] = "import" THEN ImportStmt(ParseAliases(toks, 2, TRUE, <<>>))
    ELSE IF toks[1] = "from" THEN ImportFromStmt(toks, ParseDotted(toks, 2, <<>>))
    ELSE ExprOrAssign(toks, FindAssign(toks, 1, 0))

\* the lines of a text
RECURSIVE SplitLines(_, _, _)
SplitLines(toks, i, cur) ==
    IF i > Len(toks) THEN <<cur>>
    ELSE IF toks[i] = "NL" THEN <<cur>> \o SplitLines(toks, i + 1, <<>>)
    ELSE SplitLines(toks, i + 1, Append(cur, toks[i]))

\* nesting depth of an expression
RECURSIVE Depth(_)
Max(a, b) == IF a >= b THEN a ELSE b
RECURSIVE MaxOver(_, _)
MaxOver(s, i) == IF i > Len(s) THEN 0 ELSE Max(Depth(s[i]), MaxOver(s, i + 1))
Depth(e) ==
    CASE e.k \in {"Name", "Constant", "alias"} -> 1
      [] e.k \in {"Attribute", "keyword", "Expr"} -> 1 + Depth(e.value)
      [] e.k = "Subscript" -> 1 + Max(Depth(e.value), Depth(e.slice))
      [] e.k = "Call" -> 1 + Max(Depth(e.func), Max(MaxOver(e.args, 1), MaxOver(e.keywords, 1)))
      [] e.k = "Assign" -> 1 + Max(Depth(e.targets[1]), Depth(e.value))
      [] e.k \in {"Import", "ImportFrom"} -> 2

\* ast.parse(text): a Module, a SyntaxError, or a RecursionError raised while the
\* tree is built ("maximum recursion depth exceeded during ast construction")
ParseResult(stmts) ==
    IF \E i \in 1..Len(stmts) : ~stmts[i].ok THEN [outcome |-> "SyntaxError"]
    ELSE IF \E i \in 1..Len(stmts) : Depth(stmts[i].node) > RecursionLimit
         THEN [outcome |-> "RecursionError"]
         ELSE [outcome |-> "ok", tree |-> Module([i \in 1..Len(stmts) |-> stmts[i].node])]

ParseLines(lines) == ParseResult([i \in 1..Len(lines) |-> ParseStmt(lines[i])])

\* the tokenizer drops blank space, the parser reads the lines that are left
Lex(toks) == SelectSeq(toks, LAMBDA t : t # SP)

Parse(toks) == ParseLines(SelectSeq(SplitLines(Lex(toks), 1, <<>>), LAMBDA l : l # <<>>))

-----------------------------------------------------------------------------
(* Allowlist *)

\* fqname.rpartition("."): the module path and the class name
ModOf(fq) == SubSeq(fq, 1, Len(fq) - 1)
ClsOf(fq) == fq[Len(fq)]

\* the class name looked up in every module, whatever module the name resolved to
is_allowed_class_any_module(al, fq) ==
    /\ fq # <<>>
    /\ \E m \in DOMAIN al.modules : ClsOf(fq) \in al.modules[m]

is_allowed_class(al, fq) ==
    /\ fq # <<>>
    /\ ModOf(fq) \in DOMAIN al.modules
    /\ ClsOf(fq) \in al.modules[ModOf(fq)]

\* the defaults left out: only the full parameter count is accepted
WindowIgnoringDefaults(o) == <<Len(o.args), Len(o.args)>>

\* one overload {"args": [...], "defaults": N} as its (min_args, max_args) window
WindowOf(o) ==
    LET n == Len(o.args)
        min_n == n - o.defaults
    IN  <<IF min_n < 0 THEN 0 ELSE min_n, n>>

ctor_windows(al, fq) ==
    LET ols == IF fq \in DOMAIN al.overloads THEN al.overloads[fq] ELSE <<>>
    IN  [i \in 1..Len(ols) |-> WindowOf(ols[i])]

-----------------------------------------------------------------------------
(* AST inspection utilities *)

DENY_ATTR_WITH_HINT ==
    ("AddTypicalCamera" :> "Removed in 9.x. Use vis.AddCamera(pos, target)")
    @@ ("SetYoungModulus" :> "Not available on ChContactMaterialNSC")

RECURSIVE Reverse(_)
Reverse(s) == IF s = <<>> THEN <<>> ELSE Append(Reverse(Tail(s)), Head(s))

\* a.Attribute.Attribute as <<"a", "Attribute", "Attribute">>; <<>> if the root
\* of the chain is no Name
RECURSIVE attr_chain_from(_, _)
attr_chain_from(cur, out) ==
    IF cur.k = "Attribute" THEN attr_chain_from(cur.value, Append(out, cur.attr))
    ELSE IF cur.k = "Name" THEN Reverse(Append(out, cur.id))
    ELSE <<>>

_attr_chain(root) == attr_chain_from(root, <<>>)

\* <<>> stands for None
_fqname_from_chain(chain, am) ==
    IF chain = <<>> THEN <<>>
    ELSE IF chain[1] \notin DOMAIN am THEN <<>>
    ELSE IF Len(chain) = 1 THEN am[chain[1]]
    ELSE am[chain[1]] \o Tail(chain)

\* fq.count("."): the dots of a dotted name
DotCount(fq) == Len(fq) - 1

-----------------------------------------------------------------------------
(* LegacyRewriter *)

ClassRecord(old, new) == [kind |-> "class", old |-> old, new |-> new]
AttrRecord(old, new) == [kind |-> "attribute", old |-> old, new |-> new]

RECURSIVE RewriteNode(_, _, _)
RECURSIVE RewriteSeq(_, _, _)

\* the nodes of a list rewritten first to last: [nodes, applied]
RewriteSeq(nodes, cr, ar) ==
    IF nodes = <<>> THEN [nodes |-> <<>>, applied |-> <<>>]
    ELSE LET h == RewriteNode(Head(nodes), cr, ar)
             t == RewriteSeq(Tail(nodes), cr, ar)
         IN  [nodes |-> <<h.node>> \o t.nodes, applied |-> h.applied \o t.applied]

\* NodeTransformer.visit(node): [node, applied]
RewriteNode(n, cr, ar) ==
    CASE n.k = "Name" ->
            \* visit_Name
            IF n.id \in DOMAIN cr /\ cr[n.id] # n.id
            THEN [node |-> Name(cr[n.id]), applied |-> <<ClassRecord(n.id, cr[n.id])>>]
            ELSE [node |-> n, applied |-> <<>>]
      [] n.k = "Attribute" ->
            \* visit_Attribute: generic_visit first, then the attribute name
            LET v == RewriteNode(n.value, cr, ar)
            IN  IF n.attr \in DOMAIN ar /\ ar[n.attr] # n.attr
                THEN [node |-> Attribute(v.node, ar[n.attr]),
                      applied |-> Append(v.applied, AttrRecord(n.attr, ar[n.attr]))]
                ELSE [node |-> Attribute(v.node, n.attr), applied |-> v.applied]
      [] n.k = "Call" ->
            LET f == RewriteNode(n.func, cr, ar)
                a == RewriteSeq(n.args, cr, ar)
                w == RewriteSeq(n.keywords, cr, ar)
            IN  [node |-> Call(f.node, a.nodes, w.nodes),
                 applied |-> f.applied \o a.applied \o w.applied]
      [] n.k = "keyword" ->
            LET v == RewriteNode(n.value, cr, ar)
            IN  [node |-> keyword(n.arg, v.node), applied |-> v.applied]
      [] n.k = "Subscript" ->
            LET v == RewriteNode(n.value, cr, ar)
                s == RewriteNode(n.slice, cr, ar)
            IN  [node |-> Subscript(v.node, s.node), applied |-> v.applied \o s.applied]
      [] n.k = "Assign" ->
            LET t == RewriteNode(n.targets[1], cr, ar)
                v == RewriteNode(n.value, cr, ar)
            IN  [node |-> Assign(t.node, v.node), applied |-> t.applied \o v.applied]
      [] n.k = "Expr" ->
            LET v == RewriteNode(n.value, cr, ar)
            IN  [node |-> Expr(v.node), applied |-> v.applied]
      [] n.k = "Module" ->
            LET b == RewriteSeq(n.body, cr, ar)
            IN  [node |-> Module(b.nodes), applied |-> b.applied]
      [] OTHER -> [node |-> n, applied |-> <<>>]

\* the nesting of a whole module
TreeDepth(t) == MaxOver(t.body, 1)

RECURSIVE Flatten(_)
Flatten(seqs) == IF seqs = <<>> THEN <<>> ELSE Head(seqs) \o Flatten(Tail(seqs))

\* re.sub(rf"\b{old}\b", new, text): every whole word old, wherever it stands
SubWord(text, old, new) ==
    Flatten([i \in 1..Len(text) |-> IF text[i] = old THEN IdentText(new) ELSE <<text[i]>>])

\* re.sub(rf"\.{old}\b", f".{new}", text): old only right behind a dot
SubAttr(text, old, new) ==
    Flatten([i \in 1..Len(text) |->
                IF text[i] = old /\ i > 1 /\ text[i - 1] = "."
                THEN IdentText(new) ELSE <<text[i]>>])

\* the keys of legacy_map.json in the order the file lists them (dict order)
LegacyKeys == <<"Old", "Mid", "OldAttr", "AddTypicalCamera">>
Items(m) == SelectSeq(LegacyKeys, LAMBDA k : k \in DOMAIN m)

RECURSIVE SubClasses(_, _, _)
SubClasses(text, cr, keys) ==
    IF keys = <<>> THEN text
    ELSE SubClasses(SubWord(text, Head(keys), cr[Head(keys)]), cr, Tail(keys))

RECURSIVE SubAttrs(_, _, _)
SubAttrs(text, ar, keys) ==
    IF keys = <<>> THEN text
    ELSE SubAttrs(SubAttr(text, Head(keys), ar[Head(keys)]), ar, Tail(keys))

\* the last resort when ast.unparse raises: name-based text replacements
Fallback(text, cr, ar) == SubAttrs(SubClasses(text, cr, Items(cr)), ar, Items(ar))

\* rewritten: the source when nothing was renamed, else the text of the new
\* tree, else the text replacements
RewrittenText(src, r, cr, ar) ==
    IF r.applied = <<>> THEN src
    ELSE IF TreeDepth(r.node) <= UnparseLimit THEN Unparse(r.node)
    ELSE Fallback(src, cr, ar)

\* the rewriting pass of one more run over a text: its text and its records
RewriteResult(text, r, cr, ar) ==
    [rewritten |-> RewrittenText(text, r, cr, ar), applied |-> r.applied]
RewritePassOf(text, p, cr, ar) ==
    IF p.outcome = "ok" THEN RewriteResult(text, RewriteNode(p.tree, cr, ar), cr, ar)
    ELSE [rewritten |-> text, applied |-> <<>>]
RewritePass(text, cr, ar) == RewritePassOf(text, Parse(text), cr, ar)

-----------------------------------------------------------------------------
(* PyChronoValidator *)

DeniedError(attr) ==
    [kind |-> "denied", name |-> attr, hint |-> DENY_ATTR_WITH_HINT[attr]]
CtorError(fq) == [kind |-> "ctor", fq |-> fq]
ArityError(fq, argc, wins) == [kind |-> "arity", fq |-> fq, argc |-> argc, wins |-> wins]
SyntaxErrorMsg == [kind |-> "SyntaxError"]
SyntaxErrorAfterRewriteMsg == [kind |-> "SyntaxError after rewrite"]

\* len(node.args) + sum(1 for k in node.keywords if k.arg is not None)
Argc(node) ==
    Len(node.args) + Cardinality({i \in 1..Len(node.keywords) : node.keywords[i].arg # None})

\* the denylist consulted only when the receiver is a plain name
DenyCheckOnNamesOnly(node) ==
    IF node.func.k = "Attribute" /\ node.func.value.k = "Name"
       /\ node.func.attr \in DOMAIN DENY_ATTR_WITH_HINT
    THEN <<DeniedError(node.func.attr)>>
    ELSE <<>>

\* (1) of visit_Call: the attribute denylist
DenyCheck(node) ==
    IF node.func.k = "Attribute" /\ node.func.attr \in DOMAIN DENY_ATTR_WITH_HINT
    THEN <<DeniedError(node.func.attr)>>
    ELSE <<>>

\* the arity branch of visit_Call, for an allowed class
ArityCheck(al, fq, node) ==
    LET wins == ctor_windows(al, fq)
        argc == Argc(node)
    IN  IF wins # <<>> /\ ~(\E i \in 1..Len(wins) : wins[i][1] <= argc /\ argc <= wins[i][2])
        THEN <<ArityError(fq, argc, wins)>>
        ELSE <<>>

\* (2) of visit_Call: constructor checks
CtorCheck(al, am, node) ==
    LET chain == IF node.func.k = "Attribute" THEN _attr_chain(node.func) ELSE <<>>
        fq == _fqname_from_chain(chain, am)
    IN  IF chain # <<>> /\ fq # <<>> /\ DotCount(fq) >= 2
        THEN IF ~is_allowed_class(al, fq) THEN <<CtorError(fq)>>
             ELSE ArityCheck(al, fq, node)
        ELSE <<>>

\* what visit_Call appends to self.errors for this node
visit_Call(al, am, node) == DenyCheck(node) \o CtorCheck(al, am, node)

\* the arguments of a call visited before its callee
ChildrenArgumentsFirst(n) ==
    CASE n.k = "Module" -> n.body
      [] n.k \in {"Import", "ImportFrom"} -> n.names
      [] n.k = "Assign" -> n.targets \o <<n.value>>
      [] n.k \in {"Expr", "Attribute", "keyword"} -> <<n.value>>
      [] n.k = "Subscript" -> <<n.value, n.slice>>
      [] n.k = "Call" -> n.args \o n.keywords \o <<n.func>>
      [] OTHER -> <<>>

\* generic_visit: the child nodes, in field order
Children(n) ==
    CASE n.k = "Module" -> n.body
      [] n.k \in {"Import", "ImportFrom"} -> n.names
      [] n.k = "Assign" -> n.targets \o <<n.value>>
      [] n.k \in {"Expr", "Attribute", "keyword"} -> <<n.value>>
      [] n.k = "Subscript" -> <<n.value, n.slice>>
      [] n.k = "Call" -> <<n.func>> \o n.args \o n.keywords
      [] OTHER -> <<>>

-----------------------------------------------------------------------------
(* _collect_aliases *)

PYCHRONO == <<"pychrono">>
SubmoduleNames == {"core", "vehicle", "irrlicht", "fea"}
SubmodulePaths == {<<"pychrono", m>> : m \in SubmoduleNames}

\* m with name bound to path
Bind(m, name, path) == (name :> path) @@ m

\* n.asname or <the name the statement binds>
AliasLocal(stmt, n) ==
    IF n.asname # None THEN n.asname
    ELSE IF stmt.k = "Import" THEN "pychrono" ELSE n.name[1]

\* every plain import bound to the bare top-level namespace, not to core
AliasTargetTopLevel(stmt, n) ==
    IF stmt.k = "Import" THEN (IF n.name = PYCHRONO THEN PYCHRONO ELSE <<>>)
    ELSE IF stmt.module = PYCHRONO
         THEN (IF n.name[1] \in SubmoduleNames THEN PYCHRONO \o n.name ELSE <<>>)
         ELSE IF stmt.module \in SubmodulePaths THEN stmt.module ELSE <<>>

\* "from ... import ..." left out of the alias map
AliasTargetImportOnly(stmt, n) ==
    IF stmt.k = "Import" /\ n.name = PYCHRONO THEN PYCHRONO \o <<"core">> ELSE <<>>

\* the module path an imported name is mapped to; <<>> when the import adds no entry
AliasTarget(stmt, n) ==
    IF stmt.k = "Import"
    THEN (IF n.name = PYCHRONO THEN PYCHRONO \o <<"core">> ELSE <<>>)
    ELSE IF stmt.module = PYCHRONO
         THEN (IF n.name[1] \in SubmoduleNames THEN PYCHRONO \o n.name ELSE <<>>)
         ELSE IF stmt.module \in SubmodulePaths THEN stmt.module ELSE <<>>

RECURSIVE BindNames(_, _, _)
\* the loop over node.names of visit_Import / visit_ImportFrom
BindNames(m, stmt, i) ==
    IF i > Len(stmt.names) THEN m
    ELSE IF AliasTarget(stmt, stmt.names[i]) = <<>> THEN BindNames(m, stmt, i + 1)
    ELSE BindNames(Bind(m, AliasLocal(stmt, stmt.names[i]), AliasTarget(stmt, stmt.names[i])),
                   stmt, i + 1)

RECURSIVE VisitImports(_, _, _)
VisitImports(m, body, i) ==
    IF i > Len(body) THEN m
    ELSE IF body[i].k \in {"Import", "ImportFrom"}
         THEN VisitImports(BindNames(m, body[i], 1), body, i + 1)
         ELSE VisitImports(m, body, i + 1)

_collect_aliases(t) ==
    LET m == VisitImports(<<>>, t.body, 1)
    IN  IF "chrono" \notin DOMAIN m THEN Bind(m, "chrono", <<"pychrono", "core">>) ELSE m

-----------------------------------------------------------------------------
(* The inputs of the checked instance: allowlists, legacy maps, sources *)

CORE == <<"pychrono", "core">>
VEHICLE == <<"pychrono", "vehicle">>
FEA == <<"pychrono", "fea">>
NoMap == <<>>

AllowlistOf(modules, overloads) == [modules |-> modules, overloads |-> overloads]

\* Widget allowed in core, nothing else
AllowCore == AllowlistOf(CORE :> {"Widget"}, NoMap)
\* Ambiguous listed in two modules, one of them core
AllowAmbiguous ==
    AllowlistOf((CORE :> {"Widget", "Ambiguous"}) @@ (VEHICLE :> {"Ambiguous", "M113"}), NoMap)
\* Ambiguous listed in two modules, neither of them core
AllowAmbiguousOther ==
    AllowlistOf((FEA :> {"Ambiguous"}) @@ (VEHICLE :> {"Ambiguous"}), NoMap)

ParamNames == <<"a", "b", "c", "d", "e", "f", "g", "h">>
Overload(n, d) == [args |-> SubSeq(ParamNames, 1, n), defaults |-> d]
AllowOverloads(ols) ==
    AllowlistOf(CORE :> {"Widget"}, (CORE \o <<"Widget">>) :> ols)

OverloadAllowlists ==
    {AllowOverloads(<<Overload(n, d)>>) : n \in 0..MaxParams, d \in 0..(MaxParams + 1)}
    \cup {AllowOverloads(<<Overload(1, 0), Overload(MaxParams, 0)>>),
          AllowOverloads(<<>>), AllowCore}

RECURSIVE Chain(_, _)
\* root.a1.a2...
Chain(root, attrs) ==
    IF attrs = <<>> THEN root
    ELSE Chain(Attribute(root, Head(attrs)), Tail(attrs))

CoreLinks(n) == [i \in 1..n |-> "core"]
Call0(f) == Call(f, <<>>, <<>>)
Constants(n) == [i \in 1..n |-> Constant]

Roots == {"chrono", "pychrono", "veh", "x", "core", "A"}
ClassNames == {"Widget", "Ambiguous", "Nope", "AddTypicalCamera"}
ChainTails ==
    {CoreLinks(n) \o <<c>> : n \in 0..MaxChain, c \in ClassNames}
    \cup {<<"Widget", "Foo">>}

ImportStmts ==
    {Import(<<alias(<<"pychrono">>, None)>>),
     Import(<<alias(<<"pychrono">>, "A")>>),
     Import(<<alias(VEHICLE, None)>>),
     Import(<<alias(VEHICLE, "veh")>>),
     Import(<<alias(CORE, "chrono")>>),
     Import(<<alias(<<"numpy">>, "chrono")>>),
     Import(<<alias(<<"numpy">>, None), alias(<<"pychrono">>, "A")>>),
     ImportFrom(<<"pychrono">>, <<alias(<<"core">>, None)>>),
     ImportFrom(<<"pychrono">>, <<alias(<<"vehicle">>, "veh")>>),
     ImportFrom(CORE, <<alias(<<"Widget">>, "x")>>),
     ImportFrom(<<"numpy">>, <<alias(<<"array">>, "x")>>)}

Preludes == {<<>>} \cup {<<i>> : i \in ImportStmts}

\* one call, as a bare statement or as the right-hand side of an assignment
ResolveSources ==
    {p \o <<Expr(Call0(Chain(Name(r), t)))>> : p \in Preludes, r \in Roots, t \in ChainTails}
    \cup {p \o <<Assign(Name("y"), Call0(Chain(Name(r), t)))>> :
            p \in Preludes, r \in Roots, t \in {<<"Widget">>, <<"Nope">>}}

\* a construction, bound to a variable, then a method call on the variable
MethodSources ==
    {p \o <<Assign(Name("x"), Call(Chain(Name(r), t), Constants(2), <<>>)),
            Expr(Call0(Attribute(Name("x"), m)))>> :
        p \in Preludes, r \in {"chrono", "pychrono", "A", "veh"},
        t \in {<<"Widget">>, <<"core", "Widget">>}, m \in {"Foo", "AddTypicalCamera"}}

\* a selective import alone
ImportOnlySources == {<<i>> : i \in ImportStmts}

KeywordLists ==
    {<<>>, <<keyword("b", Constant)>>, <<keyword(None, Name("k"))>>,
     <<keyword("b", Constant), keyword(None, Name("k"))>>}

\* constructions with every argument count
AritySources ==
    {p \o <<Expr(Call(Attribute(Name(r), "Widget"), Constants(n), kw))>> :
        p \in {<<>>, <<Import(<<alias(<<"pychrono">>, None)>>)>>},
        r \in {"chrono", "pychrono", "x"}, n \in 0..MaxArgs, kw \in KeywordLists}

Callees ==
    {Attribute(Name("chrono"), "Nope"), Attribute(Name("chrono"), "AddTypicalCamera"),
     Attribute(Name("x"), "SetYoungModulus"), Attribute(Name("chrono"), "Widget")}
Methods == {"AddTypicalCamera", "Foo"}

\* calls inside calls, calls on call results and on subscripts
NestedCalls ==
    {Call(f, <<Call0(g)>>, <<>>) : f \in Callees, g \in Callees}
    \cup {Call(Attribute(Name("chrono"), "Nope"), <<Call0(g)>>, <<keyword("b", Call0(h))>>) :
            g \in Callees, h \in Callees}
    \cup {Call0(Attribute(Call0(f), m)) : f \in Callees \cup {Name("f")}, m \in Methods}
    \cup {Call0(Attribute(Subscript(Name("x"), Constant), m)) : m \in Methods}
    \cup {Call0(Attribute(Subscript(Name("x"), Call0(f)), "Foo")) : f \in Callees}
    \cup {Call(Attribute(Call0(f), "AddTypicalCamera"), <<Call0(g)>>, <<>>) :
            f \in Callees, g \in Callees}
    \cup {Call0(Name("f"))}

FirstStatements ==
    {Call(f, <<Call0(g)>>, <<>>) : f \in Callees, g \in Callees}

NestedSources ==
    {<<Expr(c)>> : c \in NestedCalls}
    \cup {<<Expr(c), Expr(d)>> : c \in FirstStatements, d \in NestedCalls}

\* legacy names in use
LegacySources ==
    {<<Expr(Call0(Name("Old")))>>,
     <<Expr(Call0(Attribute(Name("x"), "OldAttr")))>>,
     <<Expr(Call0(Attribute(Name("chrono"), "Old")))>>,
     <<Expr(Call0(Attribute(Name("Old"), "OldAttr")))>>,
     <<Expr(Call(Attribute(Name("Old"), "Widget"), <<Name("Old")>>, <<>>))>>,
     <<Assign(Name("Old"), Call0(Attribute(Name("chrono"), "AddTypicalCamera")))>>,
     <<Expr(Call0(Chain(Name("Old"), CoreLinks(RecursionLimit - 4) \o <<"Widget">>)))>>,
     <<Import(<<alias(<<"pychrono">>, "Old")>>), Expr(Call0(Attribute(Name("Old"), "Nope")))>>}

\* legacy names under more nesting than ast.unparse writes out
BeyondUnparseSources ==
    {<<Expr(Call(Chain(Name("Old"), CoreLinks(UnparseLimit - 3) \o <<"OldAttr">>),
                 <<Name("Old"), Attribute(Name("x"), a)>>, <<>>))>> :
        a \in {"Old", "OldAttr"}}

\* the same text written with a blank after every dot
Spaced(text) ==
    Flatten([i \in 1..Len(text) |-> IF text[i] = "." THEN <<".", SP>> ELSE <<text[i]>>])

ClassRenameMaps ==
    {NoMap, "Old" :> "New", "Old" :> "Old", "Old" :> "class", "Old" :> "core.Widget",
     "Old" :> "chrono", ("Old" :> "Mid") @@ ("Mid" :> "New")}
AttrRenameMaps ==
    {NoMap, "OldAttr" :> "NewAttr", "OldAttr" :> "class",
     "OldAttr" :> "AddTypicalCamera", "AddTypicalCamera" :> "AddCamera"}

\* a chain nested deeper than the parser's limit
DeepSources ==
    {<<Expr(Call0(Chain(Name(r), CoreLinks(RecursionLimit) \o <<"Widget">>)))>> :
        r \in {"x", "chrono"}}

\* texts that are not Python: an unclosed bracket, a keyword used as a name, ...
DropLast(toks) == SubSeq(toks, 1, Len(toks) - 1)
MalformedTexts ==
    {DropLast(Unparse(Module(b))) : b \in AritySources}
    \cup {<<"x", "=", "(">>, <<"chrono", ".", "(", ")">>, <<"class", "(", ")">>,
          <<"import">>, <<"from", "pychrono", "import">>, <<"x", "(", "b", "=", "1", ",", "1", ")">>,
          <<"chrono", ".", "Nope", "(", ")", "NL", "x", ".", "AddTypicalCamera", "(">>}

Input(text, al, cr, ar) == [source |-> text, allow |-> al, cls_ren |-> cr, attr_ren |-> ar]

Inputs ==
    {Input(Unparse(Module(b)), al, NoMap, NoMap) :
        b \in ResolveSources \cup ImportOnlySources,
        al \in {AllowCore, AllowAmbiguous, AllowAmbiguousOther}}
    \cup {Input(Unparse(Module(b)), AllowCore, NoMap, NoMap) :
            b \in MethodSources \cup NestedSources \cup DeepSources \cup {<<>>}}
    \cup {Input(Unparse(Module(b)), al, NoMap, NoMap) :
            b \in AritySources, al \in OverloadAllowlists}
    \cup {Input(Unparse(Module(b)), AllowCore, cr, ar) :
            b \in LegacySources \cup BeyondUnparseSources,
            cr \in ClassRenameMaps, ar \in AttrRenameMaps}
    \cup {Input(Spaced(Unparse(Module(b))), AllowCore, cr, ar) :
            b \in LegacySources \cup BeyondUnparseSources,
            cr \in {NoMap, "Old" :> "New"}, ar \in {NoMap, "OldAttr" :> "NewAttr"}}
    \cup {Input(t, AllowCore, NoMap, NoMap) : t \in MalformedTexts}

-----------------------------------------------------------------------------
(* rewrite_and_validate *)

Pending == [kind |-> "pending"]
\* no HTTP request: rewrite_and_validate is called directly
NoRequest == [endpoint |-> "none"]
NoResponse == [status |-> "none"]
Returned(text, errs, renames) ==
    [kind |-> "return", rewritten |-> text, errors |-> errs, applied |-> renames]
Raised(exc) == [kind |-> "raise", exc |-> exc]
NoTree == [k |-> "none"]

Init ==
    /\ \E inp \in Inputs :
        /\ source = inp.source
        /\ allow = inp.allow
        /\ cls_ren = inp.cls_ren
        /\ attr_ren = inp.attr_ren
    /\ pc = "parse"
    /\ tree = NoTree
    /\ tree2 = NoTree
    /\ applied = <<>>
    /\ rewritten = source
    /\ alias_map = NoMap
    /\ stack = <<>>
    /\ errors = <<>>
    /\ result = Pending
    /\ SECRET = ""
    /\ req = NoRequest
    /\ resp = NoResponse

\* tree = ast.parse(source)
ParseOkWith(p) ==
    /\ p.outcome = "ok"
    /\ tree' = p.tree
    /\ pc' = "rewrite"
    /\ UNCHANGED <<SECRET, req, resp, source, allow, cls_ren, attr_ren, tree2, applied, rewritten,
                   alias_map, stack, errors, result>>

ParseOk == pc = "parse" /\ ParseOkWith(Parse(source))

\* except SyntaxError: return source, [SyntaxError...], []
ParseSyntaxError ==
    /\ pc = "parse"
    /\ Parse(source).outcome = "SyntaxError"
    /\ result' = Returned(source, <<SyntaxErrorMsg>>, <<>>)
    /\ pc' = "done"
    /\ UNCHANGED <<SECRET, req, resp, source, allow, cls_ren, attr_ren, tree, tree2, applied, rewritten,
                   alias_map, stack, errors>>

\* any other exception of ast.parse leaves rewrite_and_validate
RaiseWith(p) ==
    /\ p.outcome \notin {"ok", "SyntaxError"}
    /\ result' = Raised(p.outcome)
    /\ pc' = "raised"
    /\ UNCHANGED <<SECRET, req, resp, source, allow, cls_ren, attr_ren, tree, tree2, applied, rewritten,
                   alias_map, stack, errors>>

ParseRaises == pc = "parse" /\ RaiseWith(Parse(source))

\* the rewriting pass: rewriter.visit(tree), then the text of the new tree
RewriteWith(r) ==
    /\ tree' = r.node
    /\ applied' = r.applied
    /\ rewritten' = RewrittenText(source, r, cls_ren, attr_ren)
    /\ pc' = "reparse"
    /\ UNCHANGED <<SECRET, req, resp, source, allow, cls_ren, attr_ren, tree2, alias_map, stack, errors, result>>

Rewrite == pc = "rewrite" /\ RewriteWith(RewriteNode(tree, cls_ren, attr_ren))

\* tree2 = ast.parse(rewritten)
ReparseOkWith(p) ==
    /\ p.outcome = "ok"
    /\ tree2' = p.tree
    /\ pc' = "aliases"
    /\ UNCHANGED <<SECRET, req, resp, source, allow, cls_ren, attr_ren, tree, applied, rewritten,
                   alias_map, stack, errors, result>>

ReparseOk == pc = "reparse" /\ ReparseOkWith(Parse(rewritten))

\* except SyntaxError: return rewritten, [SyntaxError after rewrite...], applied
ReparseSyntaxError ==
    /\ pc = "reparse"
    /\ Parse(rewritten).outcome = "SyntaxError"
    /\ result' = Returned(rewritten, <<SyntaxErrorAfterRewriteMsg>>, applied)
    /\ pc' = "done"
    /\ UNCHANGED <<SECRET, req, resp, source, allow, cls_ren, attr_ren, tree, tree2, applied, rewritten,
                   alias_map, stack, errors>>

ReparseRaises == pc = "reparse" /\ RaiseWith(Parse(rewritten))

\* alias_map = _collect_aliases(tree2); validator.visit(tree2) starts
CollectAliases ==
    /\ pc = "aliases"
    /\ alias_map' = _collect_aliases(tree2)
    /\ stack' = <<tree2>>
    /\ pc' = "walk"
    /\ UNCHANGED <<SECRET, req, resp, source, allow, cls_ren, attr_ren, tree, tree2, applied, rewritten,
                   errors, result>>

\* PyChronoValidator.visit_Call on the next node, generic_visit queued behind it
VisitCall ==
    /\ pc = "walk"
    /\ stack # <<>>
    /\ Head(stack).k = "Call"
    /\ errors' = errors \o visit_Call(allow, alias_map, Head(stack))
    /\ stack' = Children(Head(stack)) \o Tail(stack)
    /\ UNCHANGED <<SECRET, req, resp, source, allow, cls_ren, attr_ren, pc, tree, tree2, applied, rewritten,
                   alias_map, result>>

\* NodeVisitor.generic_visit on any other node
GenericVisit ==
    /\ pc = "walk"
    /\ stack # <<>>
    /\ Head(stack).k # "Call"
    /\ stack' = Children(Head(stack)) \o Tail(stack)
    /\ UNCHANGED <<SECRET, req, resp, source, allow, cls_ren, attr_ren, pc, tree, tree2, applied, rewritten,
                   alias_map, errors, result>>

\* return rewritten, validator.errors, rewriter.applied
Return ==
    /\ pc = "walk"
    /\ stack = <<>>
    /\ result' = Returned(rewritten, errors, applied)
    /\ pc' = "done"
    /\ UNCHANGED <<SECRET, req, resp, source, allow, cls_ren, attr_ren, tree, tree2, applied, rewritten,
                   alias_map, stack, errors>>

Next ==
    \/ ParseOk
    \/ ParseSyntaxError
    \/ ParseRaises
    \/ Rewrite
    \/ ReparseOk
    \/ ReparseSyntaxError
    \/ ReparseRaises
    \/ CollectAliases
    \/ VisitCall
    \/ GenericVisit
    \/ Return

Spec == Init /\ [][Next]_vars

-----------------------------------------------------------------------------
(* validate_code, as the one call the server makes *)

RECURSIVE WalkErrors(_, _, _)
\* validator.visit(tree2): the errors of the nodes still to visit, in order
WalkErrors(todo, al, am) ==
    IF todo = <<>> THEN <<>>
    ELSE (IF Head(todo).k = "Call" THEN visit_Call(al, am, Head(todo)) ELSE <<>>)
         \o WalkErrors(Children(Head(todo)) \o Tail(todo), al, am)

\* allowlist_path names no file
NoFile == [modules |-> "missing"]

\* rewrite_and_validate(source, allowlist_path, None)[1]: no legacy map, so
\* nothing is renamed and the source itself is validated
ValidateParsed(p, al) ==
    IF p.outcome = "ok"
    THEN [outcome |-> "return",
          errors |-> WalkErrors(<<p.tree>>, al, _collect_aliases(p.tree))]
    ELSE IF p.outcome = "SyntaxError"
    THEN [outcome |-> "return", errors |-> <<SyntaxErrorMsg>>]
    ELSE [outcome |-> "raise", exc |-> p.outcome]

validate_code(code, al) ==
    IF al = NoFile THEN [outcome |-> "raise", exc |-> "FileNotFoundError"]
    ELSE ValidateParsed(Parse(code), al)

\* def validate_code(source: str, allowlist_path: str): the parameters
ValidateCodeParams == <<"source", "allowlist_path">>
\* the names allowlist_enforcer.py defines at module level
EnforcerNames ==
    {"Allowlist", "load_allowlist", "load_legacy_map", "_is_pychrono_alias",
     "_attr_chain", "_guess_module_from_alias", "_fqname_from_chain",
     "LegacyRewriter", "PyChronoValidator", "_collect_aliases",
     "rewrite_and_validate", "validate_code"}

\* Python's argument binding for a function without defaults, *args or
\* **kwargs: every parameter gets exactly one argument, by position or by name
CallBinds(params, npos, kwnames) ==
    /\ npos <= Len(params)
    /\ \A k \in kwnames : \E i \in (npos + 1)..Len(params) : params[i] = k
    /\ \A i \in (npos + 1)..Len(params) : params[i] \in kwnames

-----------------------------------------------------------------------------
(* server.py *)

\* MAX_CODE_BYTES of the environment; the checked instance counts tokens
MAX_CODE_BYTES == 12

HTTPException(status, detail) == [status |-> status, detail |-> detail]
NoError == [status |-> "ok"]

\* sorted(errors): the same entries in text order, kept here as a multiset
sorted(errs) ==
    [e \in {errs[i] : i \in DOMAIN errs} |-> Cardinality({i \in DOMAIN errs : errs[i] = e})]

ValidateResp(ok, errs, rewritten_code, replacements) ==
    [status |-> 200, ok |-> ok, errors |-> errs, rewritten |-> rewritten_code,
     replacements |-> replacements]
\* stdout and stderr of the script are left out
ExecResp(returncode, rewritten_code, replacements) ==
    [status |-> 200, ok |-> (returncode = 0), returncode |-> returncode,
     rewritten |-> rewritten_code, replacements |-> replacements]

lower(word) == IF word = "Bearer" THEN "bearer" ELSE word

\* authorization: None, or the header split at its first blank
_extract_bearer(authorization) ==
    IF authorization = None \/ authorization = <<>> THEN ""
    ELSE IF Len(authorization) = 2 /\ lower(authorization[1]) = "bearer"
         THEN authorization[2]
         ELSE ""

Provided(bearer, body_key) ==
    IF bearer # "" THEN bearer ELSE IF body_key = None THEN "" ELSE body_key

_require_auth(authorization, body_key) ==
    IF SECRET = "" THEN HTTPException(500, "server not configured")
    ELSE IF Provided(_extract_bearer(authorization), body_key) # SECRET
         THEN HTTPException(401, "unauthorized")
         ELSE NoError

_check_size(code) ==
    IF Len(code) > MAX_CODE_BYTES THEN HTTPException(413, "code too large") ELSE NoError

\* from allowlist_enforcer import rewrite_code, guarded by try/except
HAVE_REWRITE == "rewrite_code" \in EnforcerNames

\* _maybe_rewrite(code, enable); with no rewrite_code to call, calling it is a
\* NameError, which the handler turns into a 500
_maybe_rewrite(code, enable) ==
    IF enable /\ HAVE_REWRITE
    THEN [error |-> HTTPException(500, "rewrite error: NameError")]
    ELSE [error |-> NoError, code |-> code, replacements |-> <<>>]

\* validate_code(new_code, ALLOWLIST_PATH, ignore_imports=...): two positional
\* arguments and one keyword argument
CallValidator(code, al) ==
    IF CallBinds(ValidateCodeParams, 2, {"ignore_imports"}) THEN validate_code(code, al)
    ELSE [outcome |-> "raise", exc |-> "TypeError"]

ValidatorError(v) ==
    IF v.exc = "FileNotFoundError" THEN HTTPException(500, "allowlist not found")
    ELSE HTTPException(500, <<"validator error", v.exc>>)

\* subprocess.run of the script under the timeout
RunOutcomes == {[timeout |-> TRUE]} \cup {[timeout |-> FALSE, returncode |-> rc] : rc \in {0, 1}}
Ran(o, rw) ==
    IF o.timeout THEN HTTPException(408, "execution timeout")
    ELSE ExecResp(o.returncode, rw.code, rw.replacements)

\* what is left of a handler once the request passed _require_auth and
\* _check_size and the rewrite step: the set of responses it can give
Validated200(rw, v) ==
    IF v.outcome = "raise" THEN {ValidatorError(v)}
    ELSE {ValidateResp(v.errors = <<>>, sorted(v.errors), rw.code, rw.replacements)}
Executed(rw, v) ==
    IF v.outcome = "raise" THEN {ValidatorError(v)}
    ELSE IF v.errors # <<>> THEN {HTTPException(422, [errors |-> sorted(v.errors)])}
    ELSE {Ran(o, rw) : o \in RunOutcomes}

AfterRewrite(endpoint, rw, al) ==
    IF rw.error # NoError THEN {rw.error}
    ELSE IF endpoint = "rewrite" THEN {ValidateResp(TRUE, <<>>, rw.code, rw.replacements)}
    ELSE IF endpoint = "validate" THEN Validated200(rw, CallValidator(rw.code, al))
    ELSE Executed(rw, CallValidator(rw.code, al))

Handle(r, auth, size, al) ==
    IF auth # NoError THEN {auth}
    ELSE IF size # NoError THEN {size}
    ELSE AfterRewrite(r.endpoint, _maybe_rewrite(r.code, r.apply_legacy_map), al)

Responses(r, al) == Handle(r, _require_auth(r.authorization, r.auth_key), _check_size(r.code), al)

\* requests: the routes, the ways to present a credential, a few scripts
Authorizations ==
    {None, <<>>, <<"Bearer", "s3cret">>, <<"bearer", "s3cret">>, <<"Basic", "s3cret">>,
     <<"Bearer", "wrong">>, <<"s3cret">>}
BodyKeys == {None, "s3cret", "wrong"}
RequestCodes ==
    {<<>>, <<"x", "=", "1">>, <<"x", "=", "(">>,
     Unparse(Module(<<Expr(Call0(Attribute(Name("chrono"), "Widget")))>>)),
     Unparse(Module(<<Expr(Call0(Attribute(Name("chrono"), "Nope")))>>)),
     Unparse(Module(<<Expr(Call0(Attribute(Name("x"), "AddTypicalCamera")))>>)),
     Unparse(Module(<<Import(<<alias(<<"pychrono">>, None)>>),
                      Assign(Name("x"), Call(Chain(Name("pychrono"), <<"core", "Widget">>),
                                             Constants(2), <<>>)),
                      Expr(Call0(Attribute(Name("x"), "Foo")))>>))}
Requests ==
    [endpoint : {"rewrite", "validate", "execute"}, authorization : Authorizations,
     auth_key : BodyKeys, code : RequestCodes, apply_legacy_map : BOOLEAN,
     ignore_non_pychrono_imports : BOOLEAN]
    \cup {[endpoint |-> "health"]}

ServerInit ==
    /\ SECRET \in {"", "s3cret"}
    /\ req \in Requests
    /\ resp = NoResponse
    /\ allow \in {AllowCore, NoFile}
    /\ source = <<>>
    /\ cls_ren = NoMap
    /\ attr_ren = NoMap
    /\ pc = "serve"
    /\ tree = NoTree
    /\ tree2 = NoTree
    /\ applied = <<>>
    /\ rewritten = <<>>
    /\ alias_map = NoMap
    /\ stack = <<>>
    /\ errors = <<>>
    /\ result = Pending

Answer(endpoint, answers) ==
    /\ req.endpoint = endpoint
    /\ resp = NoResponse
    /\ resp' \in answers
    /\ UNCHANGED <<SECRET, req, source, allow, cls_ren, attr_ren, pc, tree, tree2, applied,
                   rewritten, alias_map, stack, errors, result>>

\* GET /health
health == req.endpoint = "health" /\ Answer("health", {[status |-> 200, ok |-> TRUE]})
\* POST /rewrite
rewrite == req.endpoint = "rewrite" /\ Answer("rewrite", Responses(req, allow))
\* POST /validate
validate == req.endpoint = "validate" /\ Answer("validate", Responses(req, allow))
\* POST /execute
execute == req.endpoint = "execute" /\ Answer("execute", Responses(req, allow))

ServerNext ==
    \/ health
    \/ rewrite
    \/ validate
    \/ execute

ServerSpec == ServerInit /\ [][ServerNext]_vars

-----------------------------------------------------------------------------
(* Sanity of the text model *)

TypeOK ==
    /\ pc \in {"parse", "rewrite", "reparse", "aliases", "walk", "done", "raised", "serve"}
    /\ (pc = "done") = (result.kind = "return")
    /\ (pc = "raised") = (result.kind = "raise")

\* a generated source is the text of the tree ast.parse reads from it
RoundTrip == pc = "rewrite" => Unparse(tree) = Lex(source)

\* validate_code as one evaluation gives the errors the step-by-step run returns
ValidateCodeAgrees ==
    (pc = "done" /\ cls_ren = NoMap /\ attr_ren = NoMap)
        => validate_code(source, allow) = [outcome |-> "return", errors |-> result.errors]

-----------------------------------------------------------------------------
(* What the claims speak about *)

\* the parts of a node in source order: statements first to last, a target
\* before its value, a callee before the arguments, positional arguments
\* before keyword arguments
Parts(n) ==
    IF n.k = "Module" THEN n.body
    ELSE IF n.k = "Assign" THEN <<n.targets[1], n.value>>
    ELSE IF n.k = "Call" THEN <<n.func>> \o n.args \o n.keywords
    ELSE IF n.k = "Subscript" THEN <<n.value, n.slice>>
    ELSE IF n.k \in {"Expr", "Attribute", "keyword"} THEN <<n.value>>
    ELSE <<>>

RECURSIVE PreOrder(_)
RECURSIVE PreOrderAll(_)
\* n, then the nodes of its parts, part by part
PreOrder(n) == <<n>> \o PreOrderAll(Parts(n))
PreOrderAll(ns) == IF ns = <<>> THEN <<>> ELSE PreOrder(Head(ns)) \o PreOrderAll(Tail(ns))

\* the call nodes of the validated source
CallsOf(t) == SelectSeq(PreOrder(t), LAMBDA n : n.k = "Call")

\* the validator ran to its end and the list was returned
Validated == pc = "done" /\ tree2 # NoTree

Has(seq, e) == \E i \in 1..Len(seq) : seq[i] = e
Count(seq, e) == Cardinality({i \in 1..Len(seq) : seq[i] = e})

RECURSIVE IsNameChain(_)
\* a Name, or attributes on a Name
IsNameChain(e) == e.k = "Name" \/ (e.k = "Attribute" /\ IsNameChain(e.value))
RECURSIVE ChainIds(_)
ChainIds(e) == IF e.k = "Name" THEN <<e.id>> ELSE Append(ChainIds(e.value), e.attr)

\* the callee is an attribute chain rooted at an alias
AliasRooted(c) ==
    c.func.k = "Attribute" /\ IsNameChain(c.func) /\ ChainIds(c.func)[1] \in DOMAIN alias_map
\* alias module path + remaining identifiers
Resolved(c) == alias_map[ChainIds(c.func)[1]] \o Tail(ChainIds(c.func))
\* fq is module.class for a class the policy lists under module
ListedPair(al, fq) ==
    \E m \in DOMAIN al.modules : \E c \in al.modules[m] : fq = Append(m, c)

-----------------------------------------------------------------------------
(* C1 *)

\* C1: every call node of the validated source (statement, right-hand side or
\* argument of another call) whose callee is an attribute chain rooted at an
\* alias, and whose resolved name is no (module, class) pair of the policy,
\* has a constructor violation naming that resolved name in the returned list.
C1_UnlistedConstructorFlagged ==
    Validated =>
        \A i \in 1..Len(CallsOf(tree2)) :
            LET c == CallsOf(tree2)[i]
            IN  (AliasRooted(c) /\ ~ListedPair(allow, Resolved(c)))
                    => Has(result.errors, CtorError(Resolved(c)))

\* a call that is an argument of another call is flagged in the returned list
C1_Witness ==
    /\ Validated
    /\ \E i, j \in 1..Len(CallsOf(tree2)) :
        LET c == CallsOf(tree2)[i]
            outer == CallsOf(tree2)[j]
        IN  /\ Has(outer.args, c)
            /\ AliasRooted(c)
            /\ ~ListedPair(allow, Resolved(c))
            /\ Has(result.errors, CtorError(Resolved(c)))

-----------------------------------------------------------------------------
(* C2 *)

\* the window (max(0, n - d), n) of each declared overload
ClaimedWindows(ols) ==
    [i \in 1..Len(ols) |->
        <<IF Len(ols[i].args) - ols[i].defaults > 0
          THEN Len(ols[i].args) - ols[i].defaults ELSE 0,
          Len(ols[i].args)>>]
DeclaredOverloads(al, fq) == IF fq \in DOMAIN al.overloads THEN al.overloads[fq] ELSE <<>>
\* positional arguments plus explicitly named keyword arguments
Supplied(c) == Len(c.args) + Len(SelectSeq(c.keywords, LAMBDA w : w.arg # None))
InSomeWindow(n, wins) == \E i \in 1..Len(wins) : wins[i][1] <= n /\ n <= wins[i][2]
\* a construction call that resolves to an allowed class
AllowedConstruction(c) == AliasRooted(c) /\ ListedPair(allow, Resolved(c))
ArityErrors(errs) == SelectSeq(errs, LAMBDA e : e.kind = "arity")

\* C2: a construction that resolves to an allowed class gets an arity violation
\* (naming the class, the supplied count and the windows (max(0, n - d), n)) if
\* and only if overloads are declared and the supplied count (positional plus
\* named keyword arguments, **kwargs not counted) lies in none of the windows;
\* no other arity violation is returned.
C2_ArityWindows ==
    Validated =>
        /\ \A i \in 1..Len(CallsOf(tree2)) :
            LET c == CallsOf(tree2)[i]
                wins == ClaimedWindows(DeclaredOverloads(allow, Resolved(c)))
            IN  AllowedConstruction(c) =>
                    (Has(result.errors, ArityError(Resolved(c), Supplied(c), wins))
                        <=> (wins # <<>> /\ ~InSomeWindow(Supplied(c), wins)))
        /\ \A k \in 1..Len(ArityErrors(result.errors)) :
            \E i \in 1..Len(CallsOf(tree2)) :
                LET c == CallsOf(tree2)[i]
                IN  /\ AllowedConstruction(c)
                    /\ ArityErrors(result.errors)[k] =
                        ArityError(Resolved(c), Supplied(c),
                                   ClaimedWindows(DeclaredOverloads(allow, Resolved(c))))

\* args [a, b, c] with one default: a call with four arguments is rejected with
\* the window (2, 3) listed, a call with two positional and one **kwargs accepted
C2_Witness ==
    /\ Validated
    /\ allow = AllowOverloads(<<Overload(3, 1)>>)
    /\ result.errors = <<ArityError(CORE \o <<"Widget">>, 4, <<<<2, 3>>>>)>>

\* the accepted side: the same overload accepts a call with two positional
\* arguments and a **kwargs entry, the entry counting for nothing
C2_AcceptedWitness ==
    /\ Validated
    /\ allow = AllowOverloads(<<Overload(3, 1)>>)
    /\ result.errors = <<>>
    /\ \E i \in 1..Len(CallsOf(tree2)) :
        LET c == CallsOf(tree2)[i]
        IN  /\ AllowedConstruction(c)
            /\ Len(c.args) = 2
            /\ Has(c.keywords, keyword(None, Name("k")))

-----------------------------------------------------------------------------
(* C3 *)

DeniedCallees(t, a) ==
    SelectSeq(CallsOf(t), LAMBDA c : c.func.k = "Attribute" /\ c.func.attr = a)

\* C3: every call node whose callee is an attribute access with a denied
\* attribute name contributes one denied-attribute violation carrying that
\* name's hint, whatever the receiver expression is.
C3_DeniedAttributeAlwaysFlagged ==
    Validated =>
        \A a \in DOMAIN DENY_ATTR_WITH_HINT :
            Count(result.errors,
                  [kind |-> "denied", name |-> a, hint |-> DENY_ATTR_WITH_HINT[a]])
                = Len(DeniedCallees(tree2, a))

\* a denied method called on a call result or on a subscript is flagged
C3_Witness ==
    /\ Validated
    /\ \E i \in 1..Len(CallsOf(tree2)) :
        LET c == CallsOf(tree2)[i]
        IN  /\ c.func.k = "Attribute"
            /\ c.func.attr = "AddTypicalCamera"
            /\ c.func.value.k \in {"Call", "Subscript"}
    /\ Has(result.errors, DeniedError("AddTypicalCamera"))

-----------------------------------------------------------------------------
(* C4 *)

\* the validated source is one "from X import Y" statement
OneSelectiveImport ==
    /\ pc = "done"
    /\ tree2 # NoTree
    /\ Len(tree2.body) = 1
    /\ tree2.body[1].k = "ImportFrom"

Bound(name, path) == name \in DOMAIN alias_map /\ alias_map[name] = path

-----------------------------------------------------------------------------
(* C5 *)

ModulesListing(al, cls) == {m \in DOMAIN al.modules : cls \in al.modules[m]}

\* "import pychrono" and then a single call pychrono.<class>(...), the class
\* listed under two or more modules
BareAmbiguousCall ==
    /\ Validated
    /\ Has(tree2.body, Import(<<alias(PYCHRONO, None)>>))
    /\ Len(CallsOf(tree2)) = 1
    /\ CallsOf(tree2)[1].func.k = "Attribute"
    /\ CallsOf(tree2)[1].func.value = Name("pychrono")
    /\ Cardinality(ModulesListing(allow, CallsOf(tree2)[1].func.attr)) >= 2

\* C5 as stated: the call yields exactly one unresolvable/ambiguous violation
\* and no constructor violation.
C5_AmbiguousReferenceUnresolvable ==
    BareAmbiguousCall =>
        /\ Cardinality({i \in 1..Len(result.errors) :
                            result.errors[i].kind = "unresolvable"}) = 1
        /\ \A i \in 1..Len(result.errors) : result.errors[i].kind # "ctor"

\* C5 as amended: the reference is resolved to the default submodule
\* pychrono.core and checked there: no violation when pychrono.core is one of
\* the modules listing the class and no overloads are declared for it, one
\* constructor violation naming pychrono.core.<class> when it is not; never an
\* unresolvable/ambiguous violation.
C5_AmbiguousReferenceResolvedToCore ==
    (BareAmbiguousCall /\ allow.overloads = NoMap) =>
        LET cls == CallsOf(tree2)[1].func.attr
        IN  result.errors =
                IF CORE \in ModulesListing(allow, cls) THEN <<>>
                ELSE <<CtorError(CORE \o <<cls>>)>>

\* both sides: accepted when core lists the class, rejected when it does not
C5_Witness ==
    /\ BareAmbiguousCall
    /\ allow = AllowAmbiguousOther
    /\ result.errors = <<CtorError(CORE \o <<"Ambiguous">>)>>

C5_AcceptedWitness ==
    /\ BareAmbiguousCall
    /\ allow = AllowAmbiguous
    /\ result.errors = <<>>

-----------------------------------------------------------------------------
(* C6 *)

\* import pychrono / x = pychrono.core.Widget(1, 2) / x.Foo()
ExplicitSubmoduleScenario ==
    Unparse(Module(<<Import(<<alias(PYCHRONO, None)>>),
                     Assign(Name("x"),
                            Call(Chain(Name("pychrono"), <<"core", "Widget">>),
                                 Constants(2), <<>>)),
                     Expr(Call0(Attribute(Name("x"), "Foo")))>>))

\* C6: with Widget listed under pychrono.core and no overloads, the scenario
\* import pychrono / x = pychrono.core.Widget(1, 2) / x.Foo() yields no violation.
C6_ExplicitSubmodulePathAccepted ==
    (pc = "done" /\ source = ExplicitSubmoduleScenario /\ allow = AllowCore)
        => result.errors = <<>>

-----------------------------------------------------------------------------
(* C7 *)

ImportAliases(t) ==
    {<<i, j>> \in (1..Len(t.body)) \X (1..2) :
        t.body[i].k = "Import" /\ j <= Len(t.body[i].names)}

\* C7: the alias map binds every supported import form: "import pychrono
\* [as A]" binds pychrono / A to pychrono.core, "import pychrono.<sub> as name"
\* binds name to pychrono.<sub>, an import of another package adds no entry.
C7_ImportFormsBound ==
    pc \in {"walk", "done"} /\ tree2 # NoTree =>
        \A ij \in ImportAliases(tree2) :
            LET n == tree2.body[ij[1]].names[ij[2]]
            IN  /\ n.name = PYCHRONO
                    => Bound(IF n.asname # None THEN n.asname ELSE "pychrono", CORE)
                /\ (n.name \in SubmodulePaths /\ n.asname # None)
                    => Bound(n.asname, n.name)
                /\ (n.name[1] # "pychrono" /\ n.asname = None)
                    => n.name[1] \notin DOMAIN alias_map

-----------------------------------------------------------------------------
(* C8 *)

\* no statement of the validated source imports pychrono or a part of it
NoPychronoImport(t) ==
    \A i \in 1..Len(t.body) :
        /\ t.body[i].k = "Import"
            => \A j \in 1..Len(t.body[i].names) : t.body[i].names[j].name[1] # "pychrono"
        /\ t.body[i].k = "ImportFrom" => t.body[i].module[1] # "pychrono"

\* C8: in a source without any pychrono import, no call on any variable is
\* flagged by the constructor check: only denied attribute names are reported.
C8_NonPyChronoUsageIgnored ==
    (Validated /\ NoPychronoImport(tree2)) =>
        \A i \in 1..Len(result.errors) : result.errors[i].kind = "denied"

-----------------------------------------------------------------------------
(* C9 *)

RECURSIVE ViolationsOf(_)
\* what each call node contributes, call after call
ViolationsOf(calls) ==
    IF calls = <<>> THEN <<>>
    ELSE visit_Call(allow, alias_map, Head(calls)) \o ViolationsOf(Tail(calls))

\* C9: the returned list is the violations of every call node of the tree, in
\* pre-order (a call before its callee and arguments, earlier statements
\* first), nothing dropped after the first violation, duplicates kept.
C9_AllViolationsInTraversalOrder ==
    Validated => result.errors = ViolationsOf(CallsOf(tree2))

\* a call with a violating call in its callee and another among its
\* arguments: four entries, the outer call's own first, one message twice
C9_Witness ==
    /\ Validated
    /\ Len(CallsOf(tree2)) >= 3
    /\ Len(visit_Call(allow, alias_map, CallsOf(tree2)[1])) >= 1
    /\ Len(visit_Call(allow, alias_map, CallsOf(tree2)[2])) = 2
    /\ Len(result.errors) >= 4
    /\ \E i, j \in 1..Len(result.errors) : i < j /\ result.errors[i] = result.errors[j]

-----------------------------------------------------------------------------
(* C10 *)

Finished == pc \in {"done", "raised"}

\* C10: a source that does not parse ends in the returned triple (source, one
\* SyntaxError violation, no renames), never in a raised exception; a source
\* that parses while its rewritten text does not ends in (rewritten text, one
\* "after rewrite" violation, the renames applied).
C10_ParseFailureReturned ==
    /\ (Finished /\ Parse(source).outcome # "ok")
        => result = Returned(source, <<SyntaxErrorMsg>>, <<>>)
    /\ (Finished /\ Parse(source).outcome = "ok" /\ Parse(rewritten).outcome # "ok")
        => result = Returned(rewritten, <<SyntaxErrorAfterRewriteMsg>>, applied)

-----------------------------------------------------------------------------
(* C11 *)

\* no rename target is itself a rename key of the same map
NoTargetIsKey(m) == \A k \in DOMAIN m : m[k] \notin DOMAIN m

\* the nodes a single pass replaces: bare identifiers that are class-rename
\* keys, attribute names that are attribute-rename keys
IsRenamed(n, cr, ar) ==
    \/ n.k = "Name" /\ n.id \in DOMAIN cr
    \/ n.k = "Attribute" /\ n.attr \in DOMAIN ar

RECURSIVE ReplacedOnce(_, _, _)
\* the tree with each of those names replaced by its mapped value, once
ReplacedOnce(n, cr, ar) ==
    LET R(x) == ReplacedOnce(x, cr, ar)
        All(xs) == [i \in 1..Len(xs) |-> R(xs[i])]
    IN  CASE n.k = "Name" -> IF n.id \in DOMAIN cr THEN [n EXCEPT !.id = cr[n.id]] ELSE n
          [] n.k = "Attribute" ->
                [n EXCEPT !.value = R(n.value),
                          !.attr = IF n.attr \in DOMAIN ar THEN ar[n.attr] ELSE n.attr]
          [] n.k = "Call" ->
                [n EXCEPT !.func = R(n.func), !.args = All(n.args), !.keywords = All(n.keywords)]
          [] n.k = "Subscript" -> [n EXCEPT !.value = R(n.value), !.slice = R(n.slice)]
          [] n.k \in {"keyword", "Expr"} -> [n EXCEPT !.value = R(n.value)]
          [] n.k = "Assign" -> [n EXCEPT !.targets = All(n.targets), !.value = R(n.value)]
          [] n.k = "Module" -> [n EXCEPT !.body = All(n.body)]
          [] OTHER -> n

\* a run that returned, of a source that parses, under maps in which no
\* target is a key
RewriteReturned ==
    /\ pc = "done"
    /\ Parse(source).outcome = "ok"
    /\ NoTargetIsKey(cls_ren) /\ NoTargetIsKey(attr_ren)

\* C11: under rename maps in which no target is a key of the same map, the
\* rewrite is a single pass and idempotent: the returned text is the source
\* with each bare identifier that is a class-rename key and each attribute
\* name that is an attribute-rename key replaced once by its mapped value,
\* with one rename record per replaced node; and the rewrite applied to that
\* text with the same maps applies no rename and returns the text unchanged.
C11_RewriteIdempotent ==
    RewriteReturned =>
        /\ Len(result.applied)
            = Cardinality({i \in 1..Len(PreOrder(Parse(source).tree)) :
                            IsRenamed(PreOrder(Parse(source).tree)[i], cls_ren, attr_ren)})
        /\ result.applied # <<>>
            => Lex(result.rewritten) = Unparse(ReplacedOnce(Parse(source).tree, cls_ren, attr_ren))
        /\ RewritePass(result.rewritten, cls_ren, attr_ren)
            = [rewritten |-> result.rewritten, applied |-> <<>>]

-----------------------------------------------------------------------------
(* C12 *)

\* an answered POST /validate or /execute that presented the secret, with
\* code within the size limit and an allowlist file that loads
AcceptedRequest ==
    /\ resp # NoResponse
    /\ req.endpoint \in {"validate", "execute"}
    /\ _require_auth(req.authorization, req.auth_key) = NoError
    /\ _check_size(req.code) = NoError
    /\ allow # NoFile

\* the answer the routes owe for an error list
AnswersFor(errs) ==
    IF req.endpoint = "validate" THEN resp.status = 200 /\ resp.ok = (errs = <<>>)
    ELSE IF errs # <<>> THEN resp.status = 422
    ELSE resp.status \in {200, 408}

\* C12: such a request reaches the enforcer through validate_code(code,
\* allowlist_path, ignore_imports=...) and is answered from the enforcer's error
\* list: /validate with ok true exactly when the list is empty, /execute with
\* 422 when it is not and a run of the script when it is; never with HTTP 500.
C12_RequestAnsweredFromErrorList ==
    AcceptedRequest =>
        /\ resp.status # 500
        /\ validate_code(req.code, allow).outcome = "return"
            => AnswersFor(validate_code(req.code, allow).errors)

====
